---- MODULE Spec2Model ----
(***************************************************************************)
(* State-machine model of the programs of the repository:                  *)
(*   - the stdio MCP server (src/src/index.ts): the get-appsWithTrustFilter *)
(*     tool and its process-wide catalog cache;                            *)
(*   - the Cloudflare Worker (src/unnamed/part_000): the fetch handler      *)
(*     (router) and rewriteSseResponseToAbsolute (the SSE rewrite filter);  *)
(*   - the Worker's agent MyMCP (src/unnamed/part_000): the calculate tool. *)
(* Text is a sequence of code points, a chunk a sequence of bytes; the      *)
(* UTF-8 decoder, the encoder and the regular-expression replace are        *)
(* computed as the runtime computes them.                                   *)
(***************************************************************************)
EXTENDS Integers, Sequences, FiniteSets, TLC

(* ------------------------------ bounds -------------------------------- *)

\* Number of get-appsWithTrustFilter calls the client issues.
MaxCalls == 3
\* Number of chunks the upstream SSE body delivers before it ends.
MaxChunks == 2

(* ------------------------- text and byte helpers ---------------------- *)

\* The printable ASCII characters in code order: U+0020 .. U+005F and
\* U+0061 .. U+007E.
PrintableLow == " !\"#$%&'()*+,-./0123456789:;<=>?@ABCDEFGHIJKLMNOPQRSTUVWXYZ[\\]^_"
PrintableHigh == "abcdefghijklmnopqrstuvwxyz{|}~"

\* Code point of a one-character string.
Ord(c) ==
  IF c = "\n" THEN 10
  ELSE IF c = "\r" THEN 13
  ELSE IF c = "\t" THEN 9
  ELSE IF \E i \in 1..Len(PrintableLow) : SubSeq(PrintableLow, i, i) = c
    THEN 31 + (CHOOSE i \in 1..Len(PrintableLow) : SubSeq(PrintableLow, i, i) = c)
    ELSE 96 + (CHOOSE i \in 1..Len(PrintableHigh) : SubSeq(PrintableHigh, i, i) = c)

\* A string literal as the sequence of its code points.
Chars(s) == [i \in 1..Len(s) |-> Ord(SubSeq(s, i, i))]

\* The literals of the rewrite.
TextData == Chars("data:")
TextDataSpace == Chars("data: ")
TextHttp == Chars("http://")
TextHttps == Chars("https://")
Slash == Ord("/")

\* U+FFFD REPLACEMENT CHARACTER, what a non-fatal TextDecoder emits for a
\* malformed sequence; U+FEFF, the byte order mark it strips.
ReplacementChar == 65533
ByteOrderMark == 65279

\* String.prototype.startsWith
StartsWith(t, p) == Len(t) >= Len(p) /\ SubSeq(t, 1, Len(p)) = p

\* Whether p occurs in t at index i.
MatchesAt(t, i, p) == i + Len(p) - 1 <= Len(t) /\ SubSeq(t, i, i + Len(p) - 1) = p

(* --------------------- TextDecoder / TextEncoder ---------------------- *)

\* Number of continuation bytes the lead byte b announces; -1 when b can
\* start no sequence (a continuation byte, 0xC0, 0xC1, 0xF5..0xFF).
Utf8Needed(b) ==
  IF b <= 127 THEN 0
  ELSE IF b >= 194 /\ b <= 223 THEN 1
  ELSE IF b >= 224 /\ b <= 239 THEN 2
  ELSE IF b >= 240 /\ b <= 244 THEN 3
  ELSE -1

\* Range allowed for the first continuation byte after lead byte b.
Utf8Lower(b) == IF b = 224 THEN 160 ELSE IF b = 240 THEN 144 ELSE 128
Utf8Upper(b) == IF b = 237 THEN 159 ELSE IF b = 244 THEN 143 ELSE 191

\* Number of valid continuation bytes (at most need) that follow the lead
\* byte at index i.
RECURSIVE Utf8Run(_, _, _, _)
Utf8Run(bytes, i, k, need) ==
  IF k = need \/ i + k + 1 > Len(bytes) THEN k
  ELSE LET c  == bytes[i + k + 1]
           lo == IF k = 0 THEN Utf8Lower(bytes[i]) ELSE 128
           hi == IF k = 0 THEN Utf8Upper(bytes[i]) ELSE 191
       IN IF c >= lo /\ c <= hi THEN Utf8Run(bytes, i, k + 1, need) ELSE k

\* Code point of the well-formed sequence of need+1 bytes at index i.
Utf8CodePoint(bytes, i, need) ==
  IF need = 1 THEN (bytes[i] - 192) * 64 + (bytes[i + 1] - 128)
  ELSE IF need = 2
    THEN (bytes[i] - 224) * 4096 + (bytes[i + 1] - 128) * 64 + (bytes[i + 2] - 128)
  ELSE (bytes[i] - 240) * 262144 + (bytes[i + 1] - 128) * 4096
         + (bytes[i + 2] - 128) * 64 + (bytes[i + 3] - 128)

\* The UTF-8 decoder, non-fatal: a malformed or truncated sequence becomes
\* one U+FFFD and decoding resumes at the offending byte.
RECURSIVE Utf8DecodeFrom(_, _)
Utf8DecodeFrom(bytes, i) ==
  IF i > Len(bytes) THEN << >>
  ELSE LET need == Utf8Needed(bytes[i]) IN
    IF need = 0 THEN <<bytes[i]>> \o Utf8DecodeFrom(bytes, i + 1)
    ELSE IF need = -1 THEN <<ReplacementChar>> \o Utf8DecodeFrom(bytes, i + 1)
    ELSE LET k == Utf8Run(bytes, i, 0, need) IN
      IF k = need
        THEN <<Utf8CodePoint(bytes, i, need)>> \o Utf8DecodeFrom(bytes, i + need + 1)
        ELSE <<ReplacementChar>> \o Utf8DecodeFrom(bytes, i + k + 1)

\* new TextDecoder().decode(value): UTF-8, not fatal, no stream option (every
\* call starts a fresh decoder), the leading byte order mark removed.
TextDecode(bytes) ==
  LET t == Utf8DecodeFrom(bytes, 1)
  IN IF Len(t) > 0 /\ t[1] = ByteOrderMark THEN Tail(t) ELSE t

\* UTF-8 bytes of one code point.
Utf8Bytes(c) ==
  IF c <= 127 THEN <<c>>
  ELSE IF c <= 2047 THEN <<192 + (c \div 64), 128 + (c % 64)>>
  ELSE IF c <= 65535
    THEN <<224 + (c \div 4096), 128 + ((c \div 64) % 64), 128 + (c % 64)>>
  ELSE <<240 + (c \div 262144), 128 + ((c \div 4096) % 64),
         128 + ((c \div 64) % 64), 128 + (c % 64)>>

\* new TextEncoder().encode(chunkText)
RECURSIVE TextEncode(_)
TextEncode(t) == IF t = << >> THEN << >> ELSE Utf8Bytes(Head(t)) \o TextEncode(Tail(t))

(* ----------------- the regular-expression replace --------------------- *)

\* \s of a JavaScript regular expression.
IsWhiteSpace(c) ==
  \/ c \in {9, 10, 11, 12, 13, 32, 160, 5760, 8232, 8233, 8239, 8287, 12288, 65279}
  \/ (c >= 8192 /\ c <= 8202)

\* [^\r\n]
IsLineBreak(c) == c \in {10, 13}

\* First index >= i whose character is not matched by \s (Len(t)+1 if none).
RECURSIVE SkipWhiteSpace(_, _)
SkipWhiteSpace(t, i) ==
  IF i <= Len(t) /\ IsWhiteSpace(t[i]) THEN SkipWhiteSpace(t, i + 1) ELSE i

\* First index >= i whose character is \r or \n (Len(t)+1 if none).
RECURSIVE SkipToLineBreak(_, _)
SkipToLineBreak(t, i) ==
  IF i <= Len(t) /\ ~IsLineBreak(t[i]) THEN SkipToLineBreak(t, i + 1) ELSE i

\* The origin left out of the replacement.
Replacer_NoOrigin(rel, origin) == TextDataSpace \o rel

\* The replacer callback (m, rel) => ... of the replace call.
Replacer(rel, origin) ==
  IF StartsWith(rel, TextHttp) \/ StartsWith(rel, TextHttps)
    THEN TextDataSpace \o rel
    ELSE TextDataSpace \o origin \o rel

\* Whether /data:\s*(\/[^\r\n]*)/ matches at index i: the literal, then the
\* greedy white space run, then a slash.
DataMatchAt(t, i) ==
  /\ MatchesAt(t, i, TextData)
  /\ LET j == SkipWhiteSpace(t, i + 5) IN j <= Len(t) /\ t[j] = Slash

\* chunkText.replace(/data:\s*(\/[^\r\n]*)/g, replacer) from index i on:
\* every leftmost non-overlapping match replaced, the rest copied.
RECURSIVE ReplaceFrom(_, _, _)
ReplaceFrom(t, i, origin) ==
  IF i > Len(t) THEN << >>
  ELSE IF DataMatchAt(t, i)
    THEN LET j == SkipWhiteSpace(t, i + 5)
             e == SkipToLineBreak(t, j)
         IN Replacer(SubSeq(t, j, e - 1), origin) \o ReplaceFrom(t, e, origin)
    ELSE <<t[i]>> \o ReplaceFrom(t, i + 1, origin)

RewriteText(t, origin) == ReplaceFrom(t, 1, origin)

(* ============ the stdio server: src/src/index.ts ====================== *)

\* enum TrustFactorKey
TrustFactorKey ==
  { "CMP09_complianceSOC_2", "CMP06_complianceISO_27001", "PRV01_dataProtection",
    "CMP19_complianceCSAStarCert", "CMP18_complianceFedRAMP",
    "IDD01_iddIntegrationPlatform", "SEC28_securityPenTest", "CMP04_complianceHIPAA",
    "CMP22_complianceISO_27017", "CMP16_complianceISO_27018",
    "SEC33_complianceVulnerabilityScanning", "CMP25_complianceCOPPA" }

\* The keys the modelled client calls the tool with: two of the enum and a
\* string that is none of it.
CallKeys == {"CMP09_complianceSOC_2", "PRV01_dataProtection"}
RawKeys == CallKeys \cup {"CMP99_unknown"}

\* A schema that takes any string.
TrustFactorKeySchema_AnyString(raw) == TRUE

\* z.nativeEnum(TrustFactorKey): the input schema of get-appsWithTrustFilter.
TrustFactorKeySchema(raw) == raw \in TrustFactorKey

\* An absent property of a catalog entry; null; a JSON array.
Absent == "<absent>"
Null == [null |-> TRUE]
Array(items) == [array |-> items]
IsArray(v) == "array" \in DOMAIN v

\* Documents the catalog URL may serve at different times: entries with both
\* ids, with one, with none, with a TrustFactors that is no array.
CatalogA ==
  Array(<< [TrustFactors |-> Array(<<"CMP09_complianceSOC_2", "PRV01_dataProtection">>),
            TeamsAppId |-> "teams-1", OfficeAssetId |-> "WA1"],
           [TrustFactors |-> Array(<<"CMP09_complianceSOC_2">>),
            TeamsAppId |-> Absent, OfficeAssetId |-> "WA2"],
           [TrustFactors |-> Array(<<"CMP09_complianceSOC_2">>),
            TeamsAppId |-> Absent, OfficeAssetId |-> Absent],
           [TrustFactors |-> Null,
            TeamsAppId |-> "teams-4", OfficeAssetId |-> Absent] >>)
CatalogB ==
  Array(<< [TrustFactors |-> Array(<<"PRV01_dataProtection">>),
            TeamsAppId |-> "teams-9", OfficeAssetId |-> Absent],
           [TrustFactors |-> Array(<<"PRV01_dataProtection">>),
            TeamsAppId |-> "", OfficeAssetId |-> "WA7"] >>)
Catalogs == {CatalogA, CatalogB}

\* What the outbound fetch of one call can come to: a success status with a
\* JSON array, a non-success status (its body an empty JSON array), a success
\* status with a body that is no JSON, a network failure (the fetch promise
\* rejects).
FetchOutcomes ==
  [kind : {"ok"}, body : Catalogs]
    \cup {[kind |-> "notOk", body |-> Array(<< >>)]}
    \cup {[kind |-> k, body |-> Null] : k \in {"badJson", "netError"}}

Calls == 1..MaxCalls

\* Array.prototype.includes
Includes(arr, v) == \E i \in 1..Len(arr.array) : arr.array[i] = v

\* Whether an id is truthy: neither absent (undefined) nor the empty string.
Truthy(id) == id # Absent /\ id # ""

\* OfficeAssetId taken before TeamsAppId.
RECURSIVE MatchingItems_OfficeFirst(_, _)
MatchingItems_OfficeFirst(items, key) ==
  IF items = << >> THEN << >>
  ELSE LET item == Head(items)
           id   == IF Truthy(item.OfficeAssetId) THEN item.OfficeAssetId
                   ELSE item.TeamsAppId
       IN (IF IsArray(item.TrustFactors) /\ Includes(item.TrustFactors, key)
                /\ Truthy(id)
             THEN <<id>> ELSE << >>)
          \o MatchingItems_OfficeFirst(Tail(items), key)

\* items.filter(...).map(...).filter(Boolean), in order.
RECURSIVE MatchingItems(_, _)
MatchingItems(items, key) ==
  IF items = << >> THEN << >>
  ELSE LET item == Head(items)
           id   == IF Truthy(item.TeamsAppId) THEN item.TeamsAppId
                   ELSE item.OfficeAssetId
       IN (IF IsArray(item.TrustFactors) /\ Includes(item.TrustFactors, key)
                /\ Truthy(id)
             THEN <<id>> ELSE << >>)
          \o MatchingItems(Tail(items), key)

MatchingApps(catalog, key) == MatchingItems(catalog.array, key)

\* Array.prototype.join
RECURSIVE Join(_, _)
Join(strs, sep) ==
  IF strs = << >> THEN ""
  ELSE IF Len(strs) = 1 THEN strs[1]
  ELSE strs[1] \o sep \o Join(Tail(strs), sep)

\* The tool result of the handler for a catalog and a key.
ToolResult(catalog, key) ==
  LET matchingApps == MatchingApps(catalog, key)
  IN [isError |-> FALSE,
      text |-> IF Len(matchingApps) # 0
                 THEN "Matching App IDs for " \o key \o ":\n" \o Join(matchingApps, "\n")
                 ELSE "No apps found with trust factor: " \o key]

\* What the caller gets when the handler's promise rejects.
ToolError(message) == [isError |-> TRUE, text |-> message]

\* What the caller gets when the arguments do not parse against the input
\* schema the tool was registered with: the server answers for the handler,
\* which is not called.
InvalidArguments(tool) == ToolError("Invalid arguments for tool " \o tool)

(* ============ the agent's tools: src/unnamed/part_000 ================= *)

\* z.enum(["add", "subtract", "multiply", "divide"]): the schema of operation.
OperationSchema(raw) == raw \in {"add", "subtract", "multiply", "divide"}

\* The operations and the numbers the modelled client calls calculate with.
RawOperations == {"add", "subtract", "multiply", "divide", "modulo"}
Numbers == {-2, 0, 2, 3}

\* Numbers are counted in halves, which holds every sum, difference and
\* product of the modelled numbers and their quotients that are whole or
\* end in .5; a division with another quotient is not modelled.
Abs(n) == IF n < 0 THEN -n ELSE n
Representable(operation, a, b) ==
  (operation = "divide" /\ b # 0) => (2 * a) % Abs(b) = 0

\* The decimal digits of a natural number.
DecimalDigits == "0123456789"
RECURSIVE NatToString(_)
NatToString(n) ==
  IF n < 10 THEN SubSeq(DecimalDigits, n + 1, n + 1)
  ELSE NatToString(n \div 10) \o SubSeq(DecimalDigits, (n % 10) + 1, (n % 10) + 1)

\* String(result) of a number given in halves: the sign, the whole part, and
\* .5 for an odd count; zero of either sign is "0".
NumberToString(halves) ==
  (IF halves < 0 THEN "-" ELSE "")
    \o NatToString(Abs(halves) \div 2)
    \o (IF Abs(halves) % 2 = 1 THEN ".5" ELSE "")

\* a / b in halves, for a representable quotient.
Quotient(a, b) == IF b < 0 THEN (-(2 * a)) \div (-b) ELSE (2 * a) \div b

\* A successful result with one text block.
TextResult(text) == [isError |-> FALSE, text |-> text]

\* The test for a zero divisor left out: the division is carried out.
Calculate_Unguarded(operation, a, b) ==
  IF operation = "add" THEN TextResult(NumberToString(2 * (a + b)))
  ELSE IF operation = "subtract" THEN TextResult(NumberToString(2 * (a - b)))
  ELSE IF operation = "multiply" THEN TextResult(NumberToString(2 * (a * b)))
  ELSE IF operation = "divide"
    THEN IF b = 0
           THEN TextResult(IF a = 0 THEN "NaN" ELSE IF a < 0 THEN "-Infinity" ELSE "Infinity")
           ELSE TextResult(NumberToString(Quotient(a, b)))
  ELSE TextResult("Unknown operation")

\* The handler of calculate: the switch over operation.
Calculate(operation, a, b) ==
  IF operation = "add" THEN TextResult(NumberToString(2 * (a + b)))
  ELSE IF operation = "subtract" THEN TextResult(NumberToString(2 * (a - b)))
  ELSE IF operation = "multiply" THEN TextResult(NumberToString(2 * (a * b)))
  ELSE IF operation = "divide"
    THEN IF b = 0
           THEN TextResult("Error: Cannot divide by zero")
           ELSE TextResult(NumberToString(Quotient(a, b)))
  ELSE TextResult("Unknown operation")

(* ============ the Worker: src/unnamed/part_000 ======================== *)

\* Requests the modelled clients send: the method, the URL (protocol, host,
\* pathname) and the Host header, Absent when the request carries none.
Methods == {"POST", "GET"}
Paths == {"/mcp", "/sse", "/mcp/", "/sse/message", "/mcp/message", "/sse/message//",
          "/", "//", "/health", "/health/"}
HostHeaders == {Absent, "edge.test"}
\* The sessionId query parameter of the request, Absent when it has none.
SessionIds == {Absent, "abc"}
Requests ==
  [method : Methods, protocol : {"https:"}, host : {"example.com"},
   pathname : Paths, sessionId : SessionIds, hostHeader : HostHeaders]

\* rawPath.replace(/\/+$/, "")
RECURSIVE StripTrailingSlashes(_)
StripTrailingSlashes(p) ==
  IF Len(p) > 0 /\ SubSeq(p, Len(p), Len(p)) = "/"
    THEN StripTrailingSlashes(SubSeq(p, 1, Len(p) - 1))
    ELSE p

\* The path taken as it comes: no trailing slash removed.
NormalizePath_Raw(pathname) == IF pathname = "" THEN "/" ELSE pathname

\* const rawPath = url.pathname || "/";
\* const path = rawPath.replace(/\/+$/, "") || "/";
NormalizePath(pathname) ==
  LET rawPath  == IF pathname = "" THEN "/" ELSE pathname
      stripped == StripTrailingSlashes(rawPath)
  IN IF stripped = "" THEN "/" ELSE stripped

\* Every path that opens no stream delegated to the message handler.
RouteOf_Delegating(method, p) ==
  IF p = "/sse" \/ p = "/mcp" THEN "stream-open" ELSE "message-post"

\* The branch of the fetch handler a request takes: the chain of if
\* statements, in order.
RouteOf(method, p) ==
  IF p = "/sse" \/ p = "/mcp" THEN "stream-open"
  ELSE IF p = "/sse/message" \/ p = "/mcp/message" \/ p = "/mcp"
    THEN "message-post"
  ELSE IF p = "/" \/ p = "" THEN "root"
  ELSE "not-found"

RootText == "MCP Worker - endpoints: /sse (SSE entrypoint) and /sse/message (POST JSON-RPC)."

\* new Response(RootText, { status: 200, headers: { "Content-Type": "text/plain" } })
RootResponse ==
  [kind |-> "static", status |-> 200, text |-> RootText,
   headers |-> << [name |-> "content-type", value |-> "text/plain"] >>]

\* new Response("Not found", { status: 404 })
NotFoundResponse ==
  [kind |-> "static", status |-> 404, text |-> "Not found", headers |-> << >>]

\* return MyMCP.serve("/sse/message").fetch(request, env, ctx): the request
\* is handed to the message handler as it came, and the response is the
\* handler's.
DelegatedResponse(req) ==
  [kind |-> "serve", status |-> 0, text |-> "", sessionId |-> req.sessionId]

\* The header list of the responses MyMCP.serveSSE("/sse").fetch(...) may
\* resolve to, names in lower case: single headers, a header given twice,
\* and two cookies.
SseHeaders ==
  << [name |-> "content-type", value |-> "text/event-stream"],
     [name |-> "set-cookie", value |-> "sid=1"],
     [name |-> "cache-control", value |-> "no-cache"],
     [name |-> "cache-control", value |-> "no-transform"],
     [name |-> "set-cookie", value |-> "lb=2"] >>

\* The names of the modelled headers in the order a Headers object iterates
\* them (sorted).
HeaderNameOrder == <<"cache-control", "content-type", "set-cookie">>

\* The values a header list holds for a name, in list order.
RECURSIVE HeaderValues(_, _)
HeaderValues(list, name) ==
  IF list = << >> THEN << >>
  ELSE (IF Head(list).name = name THEN <<Head(list).value>> ELSE << >>)
         \o HeaderValues(Tail(list), name)

\* What iterating a Headers object yields (for (const [k, v] of headers)):
\* the names sorted, the values of one name joined with ", " into one entry,
\* except set-cookie, which yields one entry per value.
RECURSIVE HeadersIterateFrom(_, _)
HeadersIterateFrom(list, i) ==
  IF i > Len(HeaderNameOrder) THEN << >>
  ELSE LET name   == HeaderNameOrder[i]
           values == HeaderValues(list, name)
       IN (IF values = << >> THEN << >>
           ELSE IF name = "set-cookie"
             THEN [k \in 1..Len(values) |-> [name |-> name, value |-> values[k]]]
             ELSE << [name |-> name, value |-> Join(values, ", ")] >>)
            \o HeadersIterateFrom(list, i + 1)

HeadersIterate(list) == HeadersIterateFrom(list, 1)

\* The entries of a list whose name is not the given one.
RECURSIVE HeadersWithout(_, _)
HeadersWithout(list, name) ==
  IF list = << >> THEN << >>
  ELSE (IF Head(list).name = name THEN << >> ELSE <<Head(list)>>)
         \o HeadersWithout(Tail(list), name)

\* Headers.prototype.set: the first entry of the name takes the value and
\* the other entries of the name are removed; a new name is appended.
HeadersSet(list, name, value) ==
  IF \E i \in 1..Len(list) : list[i].name = name
    THEN LET i == CHOOSE j \in 1..Len(list) :
                    list[j].name = name /\ \A l \in 1..(j - 1) : list[l].name # name
         IN SubSeq(list, 1, i - 1) \o << [name |-> name, value |-> value] >>
              \o HeadersWithout(SubSeq(list, i + 1, Len(list)), name)
    ELSE Append(list, [name |-> name, value |-> value])

\* for (const [k, v] of resp.headers) newHeaders.set(k, v ?? "");
RECURSIVE CopyEntries(_, _)
CopyEntries(entries, newHeaders) ==
  IF entries = << >> THEN newHeaders
  ELSE CopyEntries(Tail(entries), HeadersSet(newHeaders, Head(entries).name, Head(entries).value))

\* const newHeaders = new Headers(); and the loop over resp.headers.
CopyHeaders(headers) == CopyEntries(HeadersIterate(headers), << >>)

\* Responses MyMCP.serveSSE("/sse").fetch(...) may resolve to: with or
\* without a body.
SseResponses ==
  [status : {200}, statusText : {"OK"}, headers : {SseHeaders}, hasBody : BOOLEAN]

\* return new Response(transformed, { status, statusText, headers: newHeaders })
FilteredResponse(resp) ==
  [kind |-> "rewritten", status |-> resp.status, statusText |-> resp.statusText,
   headers |-> CopyHeaders(resp.headers), text |-> ""]

\* if (!resp.body) return resp;
UnmodifiedResponse(resp) ==
  [kind |-> "unmodified", status |-> resp.status, statusText |-> resp.statusText,
   headers |-> resp.headers, text |-> ""]

\* How the free identifier `request` of rewriteSseResponseToAbsolute resolves.
\* The function has the parameters resp and requestUrl only and the module
\* declares no `request`, so the lookup goes to the global object of the
\* hosting runtime: where that defines none the lookup throws a
\* ReferenceError; where it does, the inbound request is read.
RequestBindings == {"unbound", "inbound"}

\* const origin = `${urlObj.protocol}//${request.headers.get("host") ?? urlObj.host}`;
Origin(req) ==
  Chars(req.protocol \o "//"
          \o (IF req.hostHeader # Absent THEN req.hostHeader ELSE req.host))

\* Bytes of a text.
Bytes(s) == TextEncode(Chars(s))

\* Chunks the upstream SSE body may deliver.
ChunkEmpty == << >>
ChunkEndpoint == Bytes("event: endpoint\ndata: /sse/message?sessionId=abc\n\n")
ChunkEndpointCrLf == Bytes("event: endpoint\r\ndata: /mcp/message?sessionId=9\r\n\r\n")
ChunkAbsolute ==
  Bytes("event: endpoint\ndata: https://example.com/sse/message?sessionId=abc\n\n")
\* a comment line, an id line, a data line that carries no path, a two-byte
\* character (U+00E9)
ChunkMessage ==
  Bytes(": ping\nid: 7\nevent: message\ndata: {\"caf") \o <<195, 169>> \o Bytes("\":1}\n\n")
\* data: inside a line
ChunkInline == Bytes("event: message\ndata: {\"see\":\"data: /docs\"}\n\n")
\* an empty data line followed by a line that starts with a slash
ChunkBareData == Bytes("data:\n/next\n\n")
\* a relative and an absolute URL whose query holds data:/
ChunkNested == Bytes("data: /a?next=data:/b\n\n")
ChunkAbsoluteNested == Bytes("data: http://example.com/a?next=data:/b\n\n")
\* U+00E9 split by the chunk boundary: its lead byte ends one chunk, its
\* continuation byte starts the next
ChunkSplitHead == Bytes("data: caf") \o <<195>>
ChunkSplitTail == <<169>> \o Bytes("\n\n")
\* the three bytes of U+FEFF
ChunkBom == <<239, 187, 191>>

ChunkPool ==
  { ChunkEmpty, ChunkEndpoint, ChunkEndpointCrLf, ChunkAbsolute, ChunkMessage,
    ChunkInline, ChunkBareData, ChunkNested, ChunkAbsoluteNested, ChunkSplitHead,
    ChunkSplitTail, ChunkBom }

\* Results reader.read() may settle to while the upstream body is open.
ReadResults ==
  [kind : {"value"}, value : ChunkPool]
    \cup {[kind |-> "done", value |-> << >>], [kind |-> "error", value |-> << >>]}

\* Reasons the downstream consumer may cancel with.
CancelReasons == {"client-gone", "timeout"}

\* if (firstChunk && chunkText): an empty string is falsy.
RewritesChunk(firstChunk, chunkText) == firstChunk /\ chunkText # << >>

\* One pass of the loop body over a chunk read: the text enqueued (before it
\* is encoded) and the new value of firstChunk.
ProcessChunk(value, firstChunk, origin) ==
  LET chunkText == TextDecode(value)
  IN IF RewritesChunk(firstChunk, chunkText)
       THEN [text |-> RewriteText(chunkText, origin), firstChunk |-> FALSE]
       ELSE [text |-> chunkText, firstChunk |-> firstChunk]

\* controller.enqueue and controller.close throw unless the stream is
\* readable and no close was requested.
CanCloseOrEnqueue(state, closeRequested) == state = "readable" /\ ~closeRequested

\* The chunk held back instead of queued.
Enqueue_HeldBack(queue, chunk) == queue

\* controller.enqueue(chunk) on a stream that takes it: the chunk joins the
\* queue the consumer reads from.
Enqueue(queue, chunk) == Append(queue, chunk)

\* The failure taken for the end of the body.
ControllerError_Closes(state) == IF state = "readable" THEN "closed" ELSE state

\* controller.error(err): a readable stream becomes errored, its queue is
\* dropped; any other stream is left as it is.
ControllerError(state) == IF state = "readable" THEN "errored" ELSE state

VARIABLES
  program,            \* which program runs: "stdio", "worker", or "agent" (the
                      \* MyMCP object that serves the Worker's tool calls)
  calc,               \* the last calculate call: its arguments, whether the
                      \* handler was invoked, the result
  trustCatalogCache,  \* let trustCatalogCache: Null or the cached array
  calls,              \* per tool call: pc, key, how its fetch settled ("none":
                      \* it issued none or it has not settled), the response
                      \* in hand, the catalog in hand, the result
  fetchesIssued,      \* outbound fetches issued so far
  cacheWrites,        \* the values assigned to trustCatalogCache, in order
  wpc,                \* the fetch handler: "idle", "awaitServeSSE", "responded", "failed"
  request,            \* the inbound request, while the fetch handler runs
  path,               \* const path, while the fetch handler runs
  route,              \* the branch the handler took
  binding,            \* how `request` resolved in the filter ("none": not reached)
  sseResponse,        \* const sseResp: what serveSSE(...).fetch resolved to
  response,           \* what the handler's promise settled to
  upstream,           \* resp.body: "none", "locked" (reader held, open), "closed",
                      \* "errored", "cancelled"
  origin,             \* const origin
  firstChunk,         \* let firstChunk
  spc,                \* start(): "none", "reading" (await reader.read() pending),
                      \* "resolved" (the read settled, the continuation is queued),
                      \* "finished"
  readResult,         \* what the settled read resolved to
  outState,           \* the transformed stream: "none", "readable", "closed", "errored"
  closeRequested,     \* controller.close() was called with chunks still queued
  inChunks,           \* the chunks read from upstream, in order
  outChunks,          \* the chunks enqueued downstream, in order
  delivered,          \* how many of them the consumer has read
  downstreamCancel,   \* the reason the consumer cancelled with ("none": it has not)
  readerCancel,       \* the reason reader.cancel was called with ("none": it was not)
  outAtCancel         \* Len(outChunks) when the consumer cancelled

stdioVars == <<trustCatalogCache, calls, fetchesIssued, cacheWrites>>
handlerVars == <<wpc, request, path, route, binding, sseResponse, response>>
streamVars == <<upstream, origin, firstChunk, spc, readResult, outState, closeRequested,
                inChunks, outChunks, delivered, downstreamCancel, readerCancel,
                outAtCancel>>
vars == <<program, calc, stdioVars, handlerVars, streamVars>>

IdleCall == [pc |-> "idle", key |-> Absent, fetched |-> "none", resp |-> Null,
             catalog |-> Null, result |-> Null]

NoCall == [none |-> TRUE]

\* tools/call of calculate: the arguments are parsed against the schema, then
\* the handler runs (it has no await) and its result is returned.
CalculateCall(operation, a, b) ==
  /\ program = "agent"
  /\ Representable(operation, a, b)
  /\ calc' = IF OperationSchema(operation)
               THEN [operation |-> operation, a |-> a, b |-> b, invoked |-> TRUE,
                     result |-> Calculate(operation, a, b)]
               ELSE [operation |-> operation, a |-> a, b |-> b, invoked |-> FALSE,
                     result |-> InvalidArguments("calculate")]
  /\ UNCHANGED <<program, stdioVars, handlerVars, streamVars>>

\* Outbound fetches issued and not yet settled.
FetchesInFlight == Cardinality({c \in Calls : calls[c].pc = "awaitFetch"})

\* if (trustCatalogCache) return trustCatalogCache;
CacheHit(cache) == cache # Null

\* tools/call of get-appsWithTrustFilter: the argument is parsed against the
\* schema; then the handler is entered and runs fetchTrustCatalog up to its
\* first await: a cached value is returned at once, otherwise the outbound
\* fetch is issued.
CallTool(c, key) ==
  /\ program = "stdio"
  /\ calls[c].pc = "idle"
  /\ \A d \in Calls : d < c => calls[d].pc # "idle"   \* calls are numbered as they arrive
  /\ IF ~TrustFactorKeySchema(key)
       THEN /\ calls' = [calls EXCEPT ![c] =
                  [@ EXCEPT !.pc = "rejected", !.key = key,
                            !.result = InvalidArguments("get-appsWithTrustFilter")]]
            /\ UNCHANGED fetchesIssued
       ELSE IF CacheHit(trustCatalogCache)
       THEN /\ calls' = [calls EXCEPT ![c] =
                  [@ EXCEPT !.pc = "awaitCatalog", !.key = key,
                            !.catalog = trustCatalogCache]]
            /\ UNCHANGED fetchesIssued
       ELSE /\ calls' = [calls EXCEPT ![c] =
                  [@ EXCEPT !.pc = "awaitFetch", !.key = key]]
            /\ fetchesIssued' = fetchesIssued + 1
  /\ UNCHANGED <<program, calc, trustCatalogCache, cacheWrites, handlerVars, streamVars>>

\* The status check left out: every response is taken for a success.
ResponseNotOk_Unchecked(outcome) == FALSE

\* if (!response.ok) throw new Error("Failed to fetch catalog");
ResponseNotOk(outcome) == outcome.kind = "notOk"

\* The fetch of call c settles: a rejection or a non-success status ends the
\* handler with an error, otherwise response.json() is awaited.
FetchSettle(c, outcome) ==
  /\ program = "stdio"
  /\ calls[c].pc = "awaitFetch"
  /\ IF outcome.kind = "netError"
       THEN calls' = [calls EXCEPT ![c] =
              [@ EXCEPT !.pc = "done", !.fetched = outcome.kind,
                        !.result = ToolError("fetch failed")]]
       ELSE IF ResponseNotOk(outcome)
         THEN calls' = [calls EXCEPT ![c] =
                [@ EXCEPT !.pc = "done", !.fetched = outcome.kind,
                          !.result = ToolError("Failed to fetch catalog")]]
         ELSE calls' = [calls EXCEPT ![c] =
                [@ EXCEPT !.pc = "awaitJson", !.fetched = outcome.kind, !.resp = outcome]]
  /\ UNCHANGED <<program, calc, trustCatalogCache, fetchesIssued, cacheWrites, handlerVars, streamVars>>

\* The value fetchTrustCatalog stores after a response: the parsed body.
StoredCatalog(cache, body) == body

\* response.json() settles: the parsed array is assigned to the cache and
\* returned; a body that is no JSON rejects and leaves the cache alone.
JsonSettle(c) ==
  /\ program = "stdio"
  /\ calls[c].pc = "awaitJson"
  /\ IF calls[c].resp.kind = "badJson"
       THEN /\ calls' = [calls EXCEPT ![c] =
                  [@ EXCEPT !.pc = "done", !.resp = Null,
                            !.result = ToolError("invalid json")]]
            /\ UNCHANGED <<trustCatalogCache, cacheWrites>>
       ELSE /\ trustCatalogCache' = StoredCatalog(trustCatalogCache, calls[c].resp.body)
            /\ cacheWrites' = Append(cacheWrites, trustCatalogCache')
            /\ calls' = [calls EXCEPT ![c] =
                  [@ EXCEPT !.pc = "awaitCatalog", !.resp = Null,
                            !.catalog = trustCatalogCache']]
  /\ UNCHANGED <<program, calc, fetchesIssued, handlerVars, streamVars>>

\* The handler resumes with the catalog and builds its result.
HandlerResume(c) ==
  /\ program = "stdio"
  /\ calls[c].pc = "awaitCatalog"
  /\ calls' = [calls EXCEPT ![c] =
        [@ EXCEPT !.pc = "done", !.catalog = Null,
                  !.result = ToolResult(calls[c].catalog, calls[c].key)]]
  /\ UNCHANGED <<program, calc, trustCatalogCache, fetchesIssued, cacheWrites, handlerVars, streamVars>>

(* ---------------------- the Worker's actions --------------------------- *)

NoRequest == [none |-> TRUE]
NoResponse == [none |-> TRUE]
NoRead == [kind |-> "none", value |-> << >>]

\* fetch(request, env, ctx) up to its first await or its return: the path is
\* normalized and the first matching branch taken.
Fetch(req) ==
  /\ program = "worker"
  /\ wpc = "idle"
  /\ request' = req
  /\ path' = NormalizePath(req.pathname)
  /\ LET r == RouteOf(req.method, path')
     IN /\ route' = r
        /\ IF r = "stream-open"
             THEN wpc' = "awaitServeSSE" /\ response' = NoResponse
             ELSE /\ wpc' = "responded"
                  /\ response' =
                       IF r = "message-post" THEN DelegatedResponse(req)
                       ELSE IF r = "root" THEN RootResponse
                       ELSE NotFoundResponse
  /\ UNCHANGED <<program, calc, stdioVars, binding, sseResponse, streamVars>>

\* MyMCP.serveSSE("/sse").fetch(...) resolves to sseResp and the handler
\* calls rewriteSseResponseToAbsolute(sseResp, request.url), which runs to
\* its return: the stream's start() runs to its first await inside the
\* ReadableStream constructor. The handler returns (or throws) with it, and
\* its request goes out of scope.
ServeSSESettle(sseResp, b) ==
  /\ program = "worker"
  /\ wpc = "awaitServeSSE"
  /\ IF ~sseResp.hasBody
       THEN \* if (!resp.body) return resp;
            /\ wpc' = "responded"
            /\ response' = UnmodifiedResponse(sseResp)
            /\ UNCHANGED <<binding, streamVars>>
       ELSE IF b = "unbound"
         THEN \* the reader is acquired, then the origin expression throws
              /\ wpc' = "failed"
              /\ binding' = b
              /\ response' = [kind |-> "rejected", status |-> 0, text |-> "ReferenceError"]
              /\ upstream' = "locked"
              /\ UNCHANGED <<origin, firstChunk, spc, readResult, outState,
                             closeRequested, inChunks, outChunks, delivered,
                             downstreamCancel, readerCancel, outAtCancel>>
         ELSE /\ wpc' = "responded"
              /\ binding' = b
              /\ response' = FilteredResponse(sseResp)
              /\ upstream' = "locked"
              /\ origin' = Origin(request)
              /\ firstChunk' = TRUE
              /\ spc' = "reading"
              /\ outState' = "readable"
              /\ UNCHANGED <<readResult, closeRequested, inChunks, outChunks, delivered,
                             downstreamCancel, readerCancel, outAtCancel>>
  /\ sseResponse' = sseResp
  /\ request' = NoRequest
  /\ path' = Absent
  /\ UNCHANGED <<program, calc, stdioVars, route>>

\* The pending reader.read() settles: a chunk, done, or a failure of the
\* upstream body.
UpstreamRead(res) ==
  /\ program = "worker"
  /\ spc = "reading"
  /\ upstream = "locked"
  /\ res.kind = "value" => Len(inChunks) < MaxChunks
  /\ readResult' = res
  /\ spc' = "resolved"
  /\ inChunks' = IF res.kind = "value" THEN Append(inChunks, res.value) ELSE inChunks
  /\ upstream' = IF res.kind = "done" THEN "closed"
                 ELSE IF res.kind = "error" THEN "errored" ELSE upstream
  /\ UNCHANGED <<program, calc, stdioVars, handlerVars, origin, firstChunk, outState,
                 closeRequested, outChunks, delivered, downstreamCancel, readerCancel,
                 outAtCancel>>

\* start() resumes after await reader.read(): on done it leaves the loop and
\* closes the controller; on a chunk it decodes, rewrites (first chunk),
\* encodes and enqueues, then reads again; whatever is thrown (the read's
\* failure, enqueue or close on a stream that takes none) goes to
\* controller.error, which does nothing unless the stream is readable.
StreamResume ==
  /\ program = "worker"
  /\ spc = "resolved"
  /\ readResult' = NoRead
  /\ IF readResult.kind = "error"
       THEN /\ spc' = "finished"
            /\ outState' = ControllerError(outState)
            /\ UNCHANGED <<firstChunk, closeRequested, outChunks>>
       ELSE IF readResult.kind = "done"
         THEN /\ spc' = "finished"
              /\ IF CanCloseOrEnqueue(outState, closeRequested)
                   THEN IF delivered = Len(outChunks)
                          THEN outState' = "closed" /\ UNCHANGED closeRequested
                          ELSE closeRequested' = TRUE /\ UNCHANGED outState
                   ELSE UNCHANGED <<outState, closeRequested>>
              /\ UNCHANGED <<firstChunk, outChunks>>
         ELSE LET p == ProcessChunk(readResult.value, firstChunk, origin)
              IN /\ firstChunk' = p.firstChunk
                 /\ IF CanCloseOrEnqueue(outState, closeRequested)
                      THEN /\ outChunks' = Enqueue(outChunks, TextEncode(p.text))
                           /\ spc' = "reading"
                      ELSE /\ spc' = "finished"
                           /\ UNCHANGED outChunks
                 /\ UNCHANGED <<outState, closeRequested>>
  /\ UNCHANGED <<program, calc, stdioVars, handlerVars, upstream, origin, inChunks, delivered,
                 downstreamCancel, readerCancel, outAtCancel>>

\* The consumer of the response body reads the next queued chunk; the last
\* one read after controller.close() closes the stream.
ConsumerRead ==
  /\ program = "worker"
  /\ outState = "readable"
  /\ delivered < Len(outChunks)
  /\ delivered' = delivered + 1
  /\ outState' = IF closeRequested /\ delivered' = Len(outChunks) THEN "closed" ELSE outState
  /\ UNCHANGED <<program, calc, stdioVars, handlerVars, upstream, origin, firstChunk, spc,
                 readResult, closeRequested, inChunks, outChunks, downstreamCancel,
                 readerCancel, outAtCancel>>

\* cancel() that does not reach the reader.
CancelArgument_Dropped(reason) == "none"

\* What cancel(reason) passes to reader.cancel.
CancelArgument(reason) == reason

\* The consumer cancels the transformed stream: the stream closes and calls
\* cancel(reason), which calls reader.cancel(reason); that closes an open
\* upstream body and settles the pending read with done.
ConsumerCancel(reason) ==
  /\ program = "worker"
  /\ outState = "readable"
  /\ outState' = "closed"
  /\ downstreamCancel' = reason
  /\ outAtCancel' = Len(outChunks)
  /\ readerCancel' = CancelArgument(reason)
  /\ IF upstream = "locked"
       THEN /\ upstream' = "cancelled"
            /\ IF spc = "reading"
                 THEN spc' = "resolved" /\ readResult' = [kind |-> "done", value |-> << >>]
                 ELSE UNCHANGED <<spc, readResult>>
       ELSE UNCHANGED <<upstream, spc, readResult>>
  /\ UNCHANGED <<program, calc, stdioVars, handlerVars, origin, firstChunk, closeRequested,
                 inChunks, outChunks, delivered>>

(* ======================= claims: catalog cache ======================== *)

\* Calls that have entered fetchTrustCatalog, and those of them that issued
\* an outbound fetch.
StartedCalls == {c \in Calls : calls[c].pc \notin {"idle", "rejected"}}
FetchingCalls == {c \in Calls : calls[c].pc = "awaitFetch" \/ calls[c].fetched # "none"}

\* C1: single-flight. Whatever number of calls enter fetchTrustCatalog while
\* the cache is empty and no fetch has settled, at most one outbound fetch is
\* in flight and one fetch is issued in all.
C1_SingleFlight ==
  /\ FetchesInFlight <= 1
  /\ (\A c \in Calls : calls[c].fetched = "none") => fetchesIssued <= 1

\* C6: persistence. Once the cache holds a value, no step issues an outbound
\* fetch and no step assigns the cache another value.
C6_CachePersists ==
  [][CacheHit(trustCatalogCache) =>
       /\ trustCatalogCache' = trustCatalogCache
       /\ fetchesIssued' = fetchesIssued]_vars

\* C7: a failed fetch does not poison the cache. A call whose fetch came back
\* with a non-success status ends in the error "Failed to fetch catalog" and
\* in no tool text; the cache is written by successful responses only, so
\* while none has been parsed the cache is empty and every call that has
\* entered has issued its own outbound fetch.
C7_FailureDoesNotPoison ==
  /\ \A c \in Calls :
       calls[c].fetched = "notOk" =>
         /\ calls[c].pc = "done"
         /\ calls[c].result = ToolError("Failed to fetch catalog")
  /\ Len(cacheWrites) <=
       Cardinality({c \in Calls : calls[c].fetched = "ok"
                                    /\ calls[c].pc \in {"awaitCatalog", "done"}})
  /\ cacheWrites = << >> =>
       /\ trustCatalogCache = Null
       /\ fetchesIssued = Cardinality(StartedCalls)
       /\ FetchingCalls = StartedCalls

\* C7 witness: two calls have failed on a non-success status, the cache is
\* still empty, and the next call has issued a fresh fetch.
C7_Witness ==
  /\ MaxCalls >= 3
  /\ calls[1].fetched = "notOk" /\ calls[1].result.isError
  /\ calls[2].fetched = "notOk" /\ calls[2].result.isError
  /\ trustCatalogCache = Null
  /\ calls[3].pc = "awaitFetch"
  /\ fetchesIssued = 3


(* ===================== claims: tools and dispatch ===================== *)

\* C15: closed enumerations. A calculate call whose operation is none of add,
\* subtract, multiply, divide, and a get-appsWithTrustFilter call whose key is
\* none of TrustFactorKey, is answered InvalidArguments without the handler
\* being invoked: no call returns the text "Unknown operation", and a call
\* with an unrecognized key issues no catalog fetch.
C15_ClosedEnumerations ==
  /\ calc # NoCall =>
       /\ calc.operation \notin {"add", "subtract", "multiply", "divide"} =>
            /\ ~calc.invoked
            /\ calc.result = InvalidArguments("calculate")
       /\ calc.result.text # "Unknown operation"
  /\ \A c \in Calls :
       (calls[c].pc # "idle" /\ calls[c].key \notin TrustFactorKey) =>
         /\ calls[c].pc = "rejected"
         /\ calls[c].fetched = "none"
         /\ calls[c].result = InvalidArguments("get-appsWithTrustFilter")
  /\ fetchesIssued <=
       Cardinality({c \in Calls : calls[c].pc # "idle" /\ calls[c].key \in TrustFactorKey})

\* C15 witness: the first call came with an unrecognized key and was rejected
\* with no fetch issued; the second, with a key of the enum, has issued one.
C15_Witness ==
  /\ calls[1].pc = "rejected" /\ calls[1].key = "CMP99_unknown"
  /\ calls[1].result.isError
  /\ calls[2].pc = "awaitFetch"
  /\ fetchesIssued = 1

\* Whether a catalog entry lists the key among its TrustFactors, and the id
\* it is listed with: TeamsAppId where it has one (a non-empty string),
\* otherwise OfficeAssetId.
EntryHasKey(entry, key) ==
  /\ IsArray(entry.TrustFactors)
  /\ \E i \in 1..Len(entry.TrustFactors.array) : entry.TrustFactors.array[i] = key
EntryId(entry) ==
  IF entry.TeamsAppId \notin {Absent, ""} THEN entry.TeamsAppId ELSE entry.OfficeAssetId
EntryHasId(entry) == EntryId(entry) \notin {Absent, ""}

\* The text the claim gives for a catalog and a key.
ExpectedText(catalog, key) ==
  LET listed == SelectSeq(catalog, LAMBDA e : EntryHasKey(e, key) /\ EntryHasId(e))
      ids    == [i \in 1..Len(listed) |-> EntryId(listed[i])]
  IN IF ids = << >> THEN "No apps found with trust factor: " \o key
     ELSE "Matching App IDs for " \o key \o ":" \o
            Join([i \in 1..Len(ids) |-> "\n" \o ids[i]], "")

\* C17: the result of get-appsWithTrustFilter. When the handler resumes with
\* a catalog, the ids it lists are, in catalog order, those of the entries
\* whose TrustFactors holds the key, each entry by its TeamsAppId if it has
\* one and by its OfficeAssetId otherwise, entries with neither left out; the
\* text is the list, one id per line under the line naming the key, or
\* exactly "No apps found with trust factor: <key>" when the list is empty.
C17_MatchingAppsResult ==
  [][\A c \in Calls :
       (calls[c].pc = "awaitCatalog" /\ calls'[c].pc = "done") =>
         LET catalog == calls[c].catalog
             key     == calls[c].key
             result  == calls'[c].result
         IN /\ ~result.isError
            /\ result.text = ExpectedText(catalog.array, key)
            /\ (catalog = CatalogA /\ key = "CMP09_complianceSOC_2") =>
                 result.text = "Matching App IDs for CMP09_complianceSOC_2:\nteams-1\nWA2"
            /\ (catalog = CatalogB /\ key = "CMP09_complianceSOC_2") =>
                 result.text = "No apps found with trust factor: CMP09_complianceSOC_2"
    ]_vars

\* C17 witness: on one cached catalog, the first call got the list of two
\* ids (a TeamsAppId, then an OfficeAssetId) and the second, with a key no
\* entry holds, the no-apps text.
C17_Witness ==
  /\ calls[1].pc = "done" /\ calls[1].key = "PRV01_dataProtection"
  /\ calls[1].result = TextResult("Matching App IDs for PRV01_dataProtection:\nteams-9\nWA7")
  /\ calls[2].pc = "done" /\ calls[2].key = "CMP09_complianceSOC_2"
  /\ calls[2].result =
       TextResult("No apps found with trust factor: CMP09_complianceSOC_2")
  /\ fetchesIssued = 1

\* C16: calculate. divide with b = 0 returns, for every a, a successful
\* result whose text is exactly "Error: Cannot divide by zero"; add, subtract,
\* multiply, and divide with another b, return the rendering of a op b:
\* add(2,3) is "5", multiply(-2,3) is "-6".
C16_Calculate ==
  (calc # NoCall /\ calc.invoked) =>
    LET a == calc.a
        b == calc.b
        text == calc.result.text
    IN /\ ~calc.result.isError
       /\ (calc.operation = "divide" /\ b = 0) => text = "Error: Cannot divide by zero"
       /\ calc.operation = "add" => text = NumberToString(2 * (a + b))
       /\ calc.operation = "subtract" => text = NumberToString(2 * (a - b))
       /\ calc.operation = "multiply" => text = NumberToString(2 * (a * b))
       /\ (calc.operation = "divide" /\ b # 0) =>
            \E h \in -6..6 : h * b = 2 * a /\ text = NumberToString(h)
       /\ (calc.operation = "add" /\ a = 2 /\ b = 3) => text = "5"
       /\ (calc.operation = "multiply" /\ a = -2 /\ b = 3) => text = "-6"
       /\ (calc.operation = "subtract" /\ a = 2 /\ b = 3) => text = "-1"
       /\ (calc.operation = "divide" /\ a = 3 /\ b = -2) => text = "-1.5"
       /\ (calc.operation = "divide" /\ a = 0 /\ b = -2) => text = "0"

\* C16 witness: divide(-2, 0) returned the text, as a success.
C16_Witness ==
  /\ calc # NoCall
  /\ calc.invoked
  /\ calc.operation = "divide" /\ calc.a = -2 /\ calc.b = 0
  /\ calc.result = TextResult("Error: Cannot divide by zero")

(* ========================= claims: router ============================= *)

\* C2: dispatch is on the pair (normalized path, method). A request goes to
\* stream-open exactly when it is a GET of /sse or /mcp, and to message-post
\* exactly when it is a POST of /sse/message, /mcp/message or /mcp.
C2_MethodAndPathDispatch ==
  request # NoRequest =>
    LET normalized == NormalizePath(request.pathname)
    IN /\ route = "stream-open" <=>
            (request.method = "GET" /\ normalized \in {"/sse", "/mcp"})
       /\ route = "message-post" <=>
            (request.method = "POST"
               /\ normalized \in {"/sse/message", "/mcp/message", "/mcp"})

\* A run of n slashes.
Slashes == [n \in 1..2 |-> IF n = 1 THEN "/" ELSE "//"]

\* C13: trailing slashes do not count. A request to p followed by one or more
\* slashes takes the branch a request to p with the same method takes (GET
\* /mcp/ goes where GET /mcp goes), and a path of slashes only is normalized
\* to "/", never to the empty path.
C13_TrailingSlashesIgnored ==
  request # NoRequest =>
    /\ \A p \in Paths, n \in DOMAIN Slashes :
         request.pathname = p \o Slashes[n] =>
           route = RouteOf(request.method, NormalizePath(p))
    /\ request.pathname \in {"/", "//"} => path = "/"
    /\ (request.pathname = "/mcp/" /\ request.method = "GET") => route = "stream-open"

\* C13 witness: GET /mcp/ is in the branch of GET /mcp, its path normalized.
C13_Witness ==
  /\ request # NoRequest
  /\ request.method = "GET" /\ request.pathname = "/mcp/"
  /\ path = "/mcp"
  /\ route = "stream-open"
  /\ wpc = "awaitServeSSE"

\* C14: the fallbacks. Whatever the method, a request whose normalized path
\* is "/" gets the fixed plain-text description with status 200, and a request
\* whose normalized path is none of /sse, /mcp, /sse/message, /mcp/message, /
\* gets the not-found response (body "Not found") with status 404 and is
\* delegated to no transport.
C14_RouterFallbacks ==
  request # NoRequest =>
    /\ path = "/" =>
         /\ wpc = "responded" /\ route = "root"
         /\ response.kind = "static" /\ response.status = 200
         /\ response.text = RootText
         /\ response.headers = << [name |-> "content-type", value |-> "text/plain"] >>
    /\ path \notin {"/sse", "/mcp", "/sse/message", "/mcp/message", "/"} =>
         /\ wpc = "responded" /\ route = "not-found"
         /\ response.kind = "static" /\ response.status = 404
         /\ response.text = "Not found"
         /\ upstream = "none" /\ sseResponse = NoResponse

\* C14 witness: a POST to an unrecognized path was answered 404.
C14_Witness ==
  /\ request # NoRequest
  /\ request.method = "POST" /\ request.pathname = "/health"
  /\ wpc = "responded"
  /\ response.status = 404

\* C18: session routing, as far as the router decides it. A POST that carries
\* sessionId s and arrives on any of the message-post paths (/sse/message,
\* /mcp/message, /mcp) is handed, with s, to the message handler, the one
\* component that delivers a message to the session opened with s; it opens
\* no stream.
C18_MessagePostReachesSession ==
  (/\ request # NoRequest
   /\ request.method = "POST"
   /\ request.sessionId # Absent
   /\ path \in {"/sse/message", "/mcp/message", "/mcp"}) =>
    /\ wpc = "responded"
    /\ response.kind = "serve"
    /\ response.sessionId = request.sessionId

(* ===================== claims: SSE rewrite filter ====================== *)

\* The origin of a request to https://example.com that carries no Host header.
ExampleOrigin == Chars("https://example.com")

\* Chunks read from upstream that the loop body has run over.
ProcessedChunks ==
  IF spc = "resolved" /\ readResult.kind = "value" THEN Len(inChunks) - 1 ELSE Len(inChunks)

\* Whether index a starts a line of t.
IsLineStart(t, a) == a = 1 \/ IsLineBreak(t[a - 1])

\* Whether the line of t that starts at a is `data: <relative-path>`.
RelativeDataLineAt(t, a) ==
  /\ IsLineStart(t, a)
  /\ MatchesAt(t, a, TextDataSpace \o <<Slash>>)

\* Whether the line of t that starts at a is `data: http://...` or
\* `data: https://...`.
AbsoluteDataLineAt(t, a) ==
  /\ IsLineStart(t, a)
  /\ MatchesAt(t, a, TextDataSpace \o TextHttp) \/ MatchesAt(t, a, TextDataSpace \o TextHttps)

\* The text t with its line at a replaced by line, what precedes and what
\* follows that line being what the filter makes of them.
WithLineAt(t, a, line, o) ==
  LET e == SkipToLineBreak(t, a)
  IN RewriteText(SubSeq(t, 1, a - 1), o) \o line \o RewriteText(SubSeq(t, e, Len(t)), o)

\* C3: two states, AwaitingFirstChunk (firstChunk) and PassThrough. Once the
\* first chunk read has been processed the filter is in PassThrough, whatever
\* the chunk held, so no later chunk is rewritten: its text goes out as read.
C3_PassThroughAfterFirstChunk ==
  /\ ProcessedChunks >= 1 => ~firstChunk
  /\ \A k \in 2..Len(outChunks) : TextDecode(outChunks[k]) = TextDecode(inChunks[k])

C5_PassThroughBytes ==
  \A k \in 2..Len(outChunks) : outChunks[k] = inChunks[k]

\* C8: a line `data: http://...` or `data: https://...` of the first chunk
\* goes out unchanged, and the rewrite of an already rewritten first chunk
\* changes nothing.
C8_AbsoluteUnchangedIdempotent ==
  Len(outChunks) >= 1 =>
    LET t == TextDecode(inChunks[1])
    IN /\ \A a \in 1..Len(t) :
            AbsoluteDataLineAt(t, a) =>
              outChunks[1] =
                TextEncode(WithLineAt(t, a, SubSeq(t, a, SkipToLineBreak(t, a) - 1), origin))
       /\ TextEncode(ProcessChunk(outChunks[1], TRUE, origin).text) = outChunks[1]

\* The lines of t from index i on: each with its text and its terminator
\* (\r\n, \n, \r, or none at the end of t).
RECURSIVE LinesFrom(_, _)
LinesFrom(t, i) ==
  IF i > Len(t) THEN << >>
  ELSE LET e    == SkipToLineBreak(t, i)
           term == IF e > Len(t) THEN << >>
                   ELSE IF t[e] = 13 /\ e < Len(t) /\ t[e + 1] = 10 THEN <<13, 10>>
                   ELSE <<t[e]>>
       IN <<[text |-> SubSeq(t, i, e - 1), term |-> term]>>
            \o LinesFrom(t, e + Len(term))

\* Whether a line is a data line whose value is a relative path.
IsRelativeDataLine(line) ==
  /\ StartsWith(line, TextData)
  /\ LET j == SkipWhiteSpace(line, 6) IN j <= Len(line) /\ line[j] = Slash

\* C9: within the first chunk only the lines `data: <relative-path>` change:
\* the output has the same lines with the same terminators, and every other
\* line is identical.
C9_OnlyDataLinesChange ==
  Len(outChunks) >= 1 =>
    LET ins  == LinesFrom(TextDecode(inChunks[1]), 1)
        outs == LinesFrom(TextDecode(outChunks[1]), 1)
    IN /\ Len(outs) = Len(ins)
       /\ \A i \in 1..Len(ins) :
            /\ outs[i].term = ins[i].term
            /\ ~IsRelativeDataLine(ins[i].text) => outs[i].text = ins[i].text

C12_FilterFrame ==
  (wpc = "responded" /\ route = "stream-open") =>
    /\ response.status = sseResponse.status
    /\ response.statusText = sseResponse.statusText
    /\ HeadersIterate(response.headers) = HeadersIterate(sseResponse.headers)
    /\ ~sseResponse.hasBody =>
         /\ response = UnmodifiedResponse(sseResponse)
         /\ upstream = "none" /\ spc = "none" /\ outState = "none"

\* C19: origin selection. For every stream-open request whose response has a
\* body, the filter completes with a rewritten response, and the origin it
\* rewrites with is the scheme of the request URL, "//", and the Host header
\* of the inbound request when it has one, otherwise the host of the URL.
C19_OriginSelection ==
  [][(wpc = "awaitServeSSE" /\ wpc' # "awaitServeSSE" /\ sseResponse'.hasBody) =>
       /\ wpc' = "responded"
       /\ response'.kind = "rewritten"
       /\ origin' = Chars(request.protocol \o "//"
                            \o (IF request.hostHeader # Absent
                                  THEN request.hostHeader ELSE request.host))
       /\ outState' = "readable"
    ]_vars

Init ==
  /\ program \in {"stdio", "worker", "agent"}
  /\ calc = NoCall
  /\ trustCatalogCache = Null
  /\ calls = [c \in Calls |-> IdleCall]
  /\ fetchesIssued = 0
  /\ cacheWrites = << >>
  /\ wpc = "idle"
  /\ request = NoRequest
  /\ path = Absent
  /\ route = "none"
  /\ binding = "none"
  /\ sseResponse = NoResponse
  /\ response = NoResponse
  /\ upstream = "none"
  /\ origin = << >>
  /\ firstChunk = TRUE
  /\ spc = "none"
  /\ readResult = NoRead
  /\ outState = "none"
  /\ closeRequested = FALSE
  /\ inChunks = << >>
  /\ outChunks = << >>
  /\ delivered = 0
  /\ downstreamCancel = "none"
  /\ readerCancel = "none"
  /\ outAtCancel = 0

Next ==
  \/ \E c \in Calls, key \in RawKeys : CallTool(c, key)
  \/ \E operation \in RawOperations, a \in Numbers, b \in Numbers :
       CalculateCall(operation, a, b)
  \/ \E c \in Calls, outcome \in FetchOutcomes : FetchSettle(c, outcome)
  \/ \E c \in Calls : JsonSettle(c)
  \/ \E c \in Calls : HandlerResume(c)
  \/ \E req \in Requests : Fetch(req)
  \/ \E sseResp \in SseResponses, b \in RequestBindings : ServeSSESettle(sseResp, b)
  \/ \E res \in ReadResults : UpstreamRead(res)
  \/ StreamResume
  \/ ConsumerRead
  \/ \E reason \in CancelReasons : ConsumerCancel(reason)

Spec == Init /\ [][Next]_vars
====
